---- MODULE Spec2Model ----
(***************************************************************************)
(* Model of the historia ingestion-and-indexing pipeline:                  *)
(*   historia/data/__init__.py      the two runners and their helpers      *)
(*   historia/data/wikipedia.py     WikipediaDataSource and the page cache *)
(*   historia/data/core/base.py     TextDocument                           *)
(*   historia/data/core/snipper.py  SimpleSnipper, BasicParagraphSnipper   *)
(*   historia/ml/embedder.py        DummyEmbedder, OllamaEmbedder          *)
(*   historia/indexing/models.py    the tables and their constraints       *)
(*                                                                         *)
(* Strings whose characters matter (page text, snippets) are sequences of  *)
(* one-character strings; every other string is an opaque TLA+ string.     *)
(***************************************************************************)
EXTENDS Integers, Sequences, FiniteSets, TLC

\* ------------------------------------------------------------------ bounds
MaxCalls == 3          \* direct calls of the data-source operations
MaxRuns == 2           \* run_pipeline invocations
MaxLen == 5            \* characters of a content handed to a snipper
MaxIter == 7           \* iterations of the paragraph snipper's loop followed

\* ------------------------------------------------------- program constants
DefaultMaxRetries == 3         \* PipelineEntryPoint.__init__(max_retries=3)
IndexDefaultDimensions == 768  \* Index.objects.get_or_create(defaults=...)
DummyWidth == 768              \* DummyEmbedder: [0.0] * 768
DefaultMaxTokens == 200        \* BasicParagraphSnipper(max_tokens=200)
ModelWidth == 768              \* width of the vectors of "nomic-embed-text"
SmallModelWidth == 384         \* width of the vectors of "all-minilm"

NULL == "<None>"               \* Python None / a key missing from the config

\* ----------------------------------------------------------- text helpers
Whitespace == {" ", "\n", "\t"}

Max(S) == CHOOSE m \in S : \A x \in S : x <= m

Min2(a, b) == IF a <= b THEN a ELSE b

Min(S) == CHOOSE m \in S : \A x \in S : m <= x

RECURSIVE SplitAcc(_, _, _, _)
SplitAcc(s, i, cur, acc) ==
    IF i > Len(s)
    THEN (IF cur = <<>> THEN acc ELSE Append(acc, cur))
    ELSE IF s[i] \in Whitespace
         THEN SplitAcc(s, i + 1, <<>>,
                       IF cur = <<>> THEN acc ELSE Append(acc, cur))
         ELSE SplitAcc(s, i + 1, Append(cur, s[i]), acc)

\* str.split(): the maximal runs of non-whitespace characters, in order
split(s) == SplitAcc(s, 1, <<>>, <<>>)

RECURSIVE join(_, _)
\* sep.join(words)
join(sep, words) ==
    IF words = <<>> THEN <<>>
    ELSE IF Len(words) = 1 THEN words[1]
    ELSE words[1] \o sep \o join(sep, Tail(words))

\* words[i : j] with 0-based i and exclusive j, clipped as Python clips
Slice(words, i, j) == SubSeq(words, i + 1, Min2(j, Len(words)))

\* s.find(sub, start, end): the lowest index at which sub lies inside
\* s[start:end], -1 when there is none
find(s, sub, start, end) ==
    LET hits == {i \in start..(Min2(end, Len(s)) - Len(sub)) :
                    Slice(s, i, i + Len(sub)) = sub}
    IN IF hits = {} THEN -1 ELSE Min(hits)

\* s.rfind(c) for a single character c
rfind(s, c) ==
    LET hits == {i \in 0..(Len(s) - 1) : s[i + 1] = c}
    IN IF hits = {} THEN -1 ELSE Max(hits)

RECURSIVE lstrip(_)
lstrip(s) ==
    IF s # <<>> /\ Head(s) \in Whitespace THEN lstrip(Tail(s)) ELSE s

RECURSIVE rstrip(_)
rstrip(s) ==
    IF s # <<>> /\ s[Len(s)] \in Whitespace
    THEN rstrip(SubSeq(s, 1, Len(s) - 1)) ELSE s

\* s.strip()
strip(s) == rstrip(lstrip(s))

\* --------------------------------------------------------------- snipper
RECURSIVE SimpleChunks(_, _, _)
SimpleChunks(words, i, k) ==
    IF i >= Len(words) THEN <<>>
    ELSE LET snippet == join(<<" ">>, Slice(words, i, i + k))
         IN (IF snippet # <<>> THEN <<snippet>> ELSE <<>>)
            \o SimpleChunks(words, i + k, k)

\* the snipper keeping the chunks of full length only
SimpleSnipper_generate_snippets_FullChunksOnly(snippet_length, content) ==
    IF snippet_length = 0 THEN [raised |-> TRUE, snippets |-> <<>>]
    ELSE IF snippet_length < 0 THEN [raised |-> FALSE, snippets |-> <<>>]
    ELSE [raised |-> FALSE,
          snippets |-> SelectSeq(SimpleChunks(split(content), 0, snippet_length),
                                 LAMBDA c : Len(split(c)) = snippet_length)]

\* SimpleSnipper(snippet_length).generate_snippets(content);
\* range(0, n, 0) raises ValueError, a negative step gives an empty range
SimpleSnipper_generate_snippets(snippet_length, content) ==
    IF snippet_length = 0 THEN [raised |-> TRUE, snippets |-> <<>>]
    ELSE IF snippet_length < 0 THEN [raised |-> FALSE, snippets |-> <<>>]
    ELSE [raised |-> FALSE,
          snippets |-> SimpleChunks(split(content), 0, snippet_length)]

\* SimpleSnipper(snippet_length)
SimpleSnipper(snippet_length) ==
    [type |-> "simple", snippet_length |-> snippet_length,
     max_tokens |-> 0, min_tokens |-> 0]

\* BasicParagraphSnipper(max_tokens, min_tokens): min_tokens is <<>> for
\* None and <<n>> for a number n
BasicParagraphSnipper(max_tokens, min_tokens) ==
    [type |-> "paragraph", snippet_length |-> 0, max_tokens |-> max_tokens,
     min_tokens |-> IF min_tokens # <<>> THEN min_tokens[1]
                    ELSE max_tokens \div 2]

SentenceEndings == {<<".", " ">>, <<"!", " ">>, <<"?", " ">>}

\* BasicParagraphSnipper._find_sentence_boundary(text, max_pos, min_pos)
find_sentence_boundary(text, max_pos, min_pos) ==
    LET hits == {i \in min_pos..(Min2(max_pos, Len(text)) - 1) :
                    Slice(text, i, i + 2) \in SentenceEndings}
    IN IF hits # {} THEN Min(hits) + 2
       ELSE LET space_pos == rfind(Slice(text, min_pos, max_pos), " ")
                best_pos == IF max_pos - 1 >= min_pos /\ space_pos > 0
                            THEN min_pos + space_pos + 1
                            ELSE 0
            IN IF best_pos >= min_pos THEN best_pos ELSE max_pos

\* the test of lines 70 and 80 without its word count
Yields_NoMinimum(snippet, min_tokens) == snippet # <<>>

\* `if snippet and len(snippet.split()) >= self.min_tokens`
Yields(snippet, min_tokens) ==
    snippet # <<>> /\ Len(split(snippet)) >= min_tokens

\* one iteration of the `while` of BasicParagraphSnipper.generate_snippets,
\* lines 63-82: the candidate, whether it is yielded, and the new cursor
ParagraphIteration(text, pos, max_tokens, min_tokens) ==
    LET next_para == find(text, <<"\n", "\n">>, pos, pos + max_tokens)
    IN IF next_para # -1
       THEN LET snippet == strip(Slice(text, pos, next_para))
            IN [snippet |-> snippet, yields |-> Yields(snippet, min_tokens),
                current_pos |-> next_para + 2]
       ELSE LET next_pos == find_sentence_boundary(
                                Slice(text, pos, Len(text)), max_tokens, 0)
                snippet == strip(Slice(text, pos, pos + next_pos))
            IN [snippet |-> snippet, yields |-> Yields(snippet, min_tokens),
                current_pos |-> pos + next_pos]

\* -------------------------------------------------------------- embedder
\* A vector of `width` copies of `fill`, kept as its run-length form
ZeroVector == [width |-> DummyWidth, fill |-> 0]

\* the embedder answering with one vector whatever the number of texts
DummyEmbedder_embed_OneVector(texts) == <<ZeroVector>>

\* DummyEmbedder.embed(texts) for a list of texts: [[0.0] * 768] * len(texts)
DummyEmbedder_embed(texts) == [i \in 1..Len(texts) |-> ZeroVector]

\* The argument of embed is a str or a list of str; the two are told apart
\* by isinstance(texts, str), kept here as the field isstr
StrArg(text) == [isstr |-> TRUE, value |-> text]

ListArg(texts) == [isstr |-> FALSE, value |-> texts]

\* DummyEmbedder.embed(texts), lines 19-22
DummyEmbedder_embed_arg(arg) ==
    IF arg.isstr THEN [raised |-> FALSE, vectors |-> <<ZeroVector>>]
    ELSE [raised |-> FALSE, vectors |-> DummyEmbedder_embed(arg.value)]

\* ollama.embeddings(model=..., prompt=text).embedding: the vector the
\* backend computes for the prompt
ollama_embedding(prompt) == [width |-> ModelWidth, fill |-> <<"E", prompt>>]

\* OllamaEmbedder.embed(texts), lines 31-40; failAt is the backend call
\* that raises, 0 for none
OllamaEmbedder_embed_arg(arg, failAt) ==
    IF arg.isstr
    THEN (IF failAt = 1 THEN [raised |-> TRUE, vectors |-> <<>>]
          ELSE [raised |-> FALSE, vectors |-> <<ollama_embedding(arg.value)>>])
    ELSE IF failAt \in 1..Len(arg.value)
    THEN [raised |-> TRUE, vectors |-> <<>>]
    ELSE [raised |-> FALSE,
          vectors |-> [i \in 1..Len(arg.value) |-> ollama_embedding(arg.value[i])]]

\* len(embedding)
VectorLen(v) == v.width

\* ------------------------------------------------------- the database rows
\* WikipediaDocument (with its Document parent row): id, url (unique), title,
\* content, metadata.  Index: id, name (unique), dimensions.  Embedding: id,
\* embedding, dimensions.  IndexedDocumentSnippet: id, index, document,
\* snippet, embedding, unique together on (index, document, snippet).
EmptyDb == [documents |-> {}, indexes |-> {}, embeddings |-> {}, snippets |-> {}]

\* the primary key the database gives a new row of a table
FreshId(rows) == Max({r.id : r \in rows} \cup {0}) + 1

RECURSIVE SetToSeq(_)
\* the order in which a Python set is iterated (one fixed order)
SetToSeq(S) ==
    IF S = {} THEN <<>>
    ELSE LET x == CHOOSE y \in S : TRUE IN <<x>> \o SetToSeq(S \ {x})

\* update_or_create as a plain create: the url is not looked up
update_or_create_AlwaysCreate(documents, doc) ==
    [raised |-> FALSE,
     documents |-> documents \cup
         {[id |-> FreshId(documents), url |-> doc.url, title |-> doc.title,
           content |-> doc.content, metadata |-> doc.metadata]}]

\* WikipediaDocument.objects.update_or_create(url=doc.url, defaults={...})
update_or_create(documents, doc) ==
    LET matches == {r \in documents : r.url = doc.url}
    IN IF matches = {}
       THEN [raised |-> FALSE,
             documents |-> documents \cup
                 {[id |-> FreshId(documents), url |-> doc.url,
                   title |-> doc.title, content |-> doc.content,
                   metadata |-> doc.metadata]}]
       ELSE IF Cardinality(matches) = 1
       THEN LET r == CHOOSE x \in matches : TRUE
            IN [raised |-> FALSE,
                documents |-> (documents \ {r}) \cup
                    {[r EXCEPT !.title = doc.title, !.content = doc.content,
                               !.metadata = doc.metadata]}]
       ELSE [raised |-> TRUE, documents |-> documents]

RECURSIVE WriteLoop(_, _, _)
WriteLoop(documents, docs, i) ==
    IF i > Len(docs) THEN [raised |-> FALSE, documents |-> documents]
    ELSE LET r == update_or_create(documents, docs[i])
         IN IF r.raised THEN r ELSE WriteLoop(r.documents, docs, i + 1)

\* WikipediaDataSource.write_documents_to_database(documents): one
\* transaction; dbError is the database refusing a statement of the call
write_documents_to_database(db, docs, dbError) ==
    IF dbError THEN [raised |-> TRUE, db |-> db]
    ELSE LET r == WriteLoop(db.documents, docs, 1)
         IN IF r.raised THEN [raised |-> TRUE, db |-> db]
            ELSE [raised |-> FALSE, db |-> [db EXCEPT !.documents = r.documents]]

\* Index.objects.get_or_create(name=index_name, defaults={"dimensions": 768})
Index_get_or_create(indexes, index_name) ==
    IF \E x \in indexes : x.name = index_name THEN indexes
    ELSE indexes \cup {[id |-> FreshId(indexes), name |-> index_name,
                        dimensions |-> IndexDefaultDimensions]}

\* the table without its unique_together constraint
UniqueTogether_NotEnforced(snippets, index, document, snippet) == FALSE

\* unique_together = ("index", "document", "snippet")
UniqueTogetherViolated(snippets, index, document, snippet) ==
    \E r \in snippets :
        r.index = index /\ r.document = document /\ r.snippet = snippet

\* snipper.generate_snippets(content) for the snipper object handed in
generate_snippets(snipper, content) ==
    SimpleSnipper_generate_snippets(snipper.snippet_length, content)

\* the width of the vectors an embedder returns: the dummy embedder, the
\* OllamaEmbedder of the default model, an OllamaEmbedder of another model
EmbedderWidth(embedder) ==
    IF embedder = "dummy" THEN DummyWidth
    ELSE IF embedder = "ollama" THEN ModelWidth
    ELSE SmallModelWidth

\* embedder.embed(snippets) for the embedder object handed in
embed(embedder, texts) ==
    IF embedder = "dummy" THEN DummyEmbedder_embed(texts)
    ELSE [i \in 1..Len(texts) |->
             [width |-> EmbedderWidth(embedder), fill |-> <<"E", texts[i]>>]]

RECURSIVE ZipLoop(_, _, _, _, _, _)
\* for snippet, embedding in zip(snippets, embeddings): create both rows
ZipLoop(tx, index, doc, snippets, embeddings, i) ==
    IF i > Min2(Len(snippets), Len(embeddings)) THEN tx
    ELSE LET embedding_instance ==
                 [id |-> FreshId(tx.embeddings), embedding |-> embeddings[i],
                  dimensions |-> VectorLen(embeddings[i])]
             withEmb == [tx EXCEPT !.embeddings = @ \cup {embedding_instance}]
         IN IF UniqueTogetherViolated(tx.snippets, index.id, doc.id, snippets[i])
            THEN [withEmb EXCEPT !.raised = TRUE]
            ELSE ZipLoop([withEmb EXCEPT !.snippets = @ \cup
                             {[id |-> FreshId(tx.snippets), index |-> index.id,
                               document |-> doc.id, snippet |-> snippets[i],
                               embedding |-> embedding_instance.id]}],
                         index, doc, snippets, embeddings, i + 1)

RECURSIVE DocLoop(_, _, _, _, _, _)
\* for doc in documents: snippets, embeddings, rows
DocLoop(tx, index, docs, snipper, embedder, i) ==
    IF i > Len(docs) THEN tx
    ELSE LET g == generate_snippets(snipper, docs[i].content)
         IN IF g.raised THEN [tx EXCEPT !.raised = TRUE]
            ELSE LET t == ZipLoop(tx, index, docs[i], g.snippets,
                                  embed(embedder, g.snippets), 1)
                 IN IF t.raised THEN t
                    ELSE DocLoop(t, index, docs, snipper, embedder, i + 1)

\* index_documents without its transaction: the rows made before an error
\* stay
index_documents_NoRollback(db, documents, index_name, snipper, embedder) ==
    LET indexes == Index_get_or_create(db.indexes, index_name)
        index == CHOOSE x \in indexes : x.name = index_name
        tx == DocLoop([embeddings |-> db.embeddings, snippets |-> db.snippets,
                       raised |-> FALSE],
                      index, SetToSeq(documents), snipper, embedder, 1)
    IN [raised |-> tx.raised,
        db |-> [db EXCEPT !.indexes = indexes,
                          !.embeddings = tx.embeddings,
                          !.snippets = tx.snippets]]

\* WikipediaDataSource.index_documents(documents, index_name, snipper,
\* embedder): the index row is made outside the transaction and stays; the
\* rows of the loop are rolled back together when anything in it raises
index_documents(db, documents, index_name, snipper, embedder) ==
    LET indexes == Index_get_or_create(db.indexes, index_name)
        index == CHOOSE x \in indexes : x.name = index_name
        tx == DocLoop([embeddings |-> db.embeddings, snippets |-> db.snippets,
                       raised |-> FALSE],
                      index, SetToSeq(documents), snipper, embedder, 1)
    IN IF tx.raised
       THEN [raised |-> TRUE, db |-> [db EXCEPT !.indexes = indexes]]
       ELSE [raised |-> FALSE,
             db |-> [db EXCEPT !.indexes = indexes,
                               !.embeddings = tx.embeddings,
                               !.snippets = tx.snippets]]

\* ------------------------------------------------------------ the corpus
\* Pages are named by their url, PAGE_ID_URL_BASE + pageid
URLS == {"u1", "u2"}

Title(u) == IF u = "u1" THEN "T1" ELSE "T2"

\* Category "A" holds page u1 and the subcategory "B"; "B" holds page u2
CategoryPages(c) == IF c = "A" THEN {"u1"} ELSE {"u2"}

CategorySubcats(c) == IF c = "A" THEN {"B"} ELSE {}

Str_a_a == <<"a", " ", "a">>

Str_a_b == <<"a", " ", "b">>

Str_b == <<"b">>

Contents == {Str_a_a, Str_a_b, Str_b}

NoEntry == [present |-> FALSE, title |-> NULL, content |-> <<>>]

\* --------------------------------------------------------- TextDocument
\* @dataclass with eq and without frozen: __eq__ compares every field and
\* __hash__ is None, so an instance cannot be put in a set
TextDocumentHashable == FALSE

TextDocument(title, content, metadata, url) ==
    [title |-> title, content |-> content, metadata |-> metadata, url |-> url]

\* ------------------------------------------------- WikipediaDataSource
RECURSIVE get_categorymembers(_, _, _, _, _)
\* the pages get_categorymembers adds to results for one category: a page is
\* skipped when a persisted document of its url has the same content; a
\* subcategory is entered while level < max_level
get_categorymembers(category, level, max_level, documents, text) ==
    {p \in CategoryPages(category) :
        ~ \E d \in documents : d.url = p /\ d.content = text[p]}
    \cup (IF level < max_level
          THEN UNION {get_categorymembers(c, level + 1, max_level, documents, text)
                        : c \in CategorySubcats(category)}
          ELSE {})

\* process_category leaving out every page that has a persisted document,
\* whatever its content
process_category_SkipPersisted(category, documents, text) ==
    {p \in get_categorymembers(category, 0, 1, {}, text) :
        ~ \E d \in documents : d.url = p}

\* process_category(category): the pages of one configured category
process_category(category, documents, text) ==
    get_categorymembers(category, 0, 1, documents, text)

\* every order in which the members of a set can be listed
Perms(S) ==
    {q \in [1..Cardinality(S) -> S] : \A i, j \in 1..Cardinality(S) :
                                          i # j => q[i] # q[j]}

RECURSIVE generate_urls(_, _, _, _)
\* generate_urls(use_all): the lists it can return, the per-category lists
\* concatenated in the order of self.categories; use_all is not read
generate_urls(use_all, categories, documents, text) ==
    IF categories = <<>> THEN {<<>>}
    ELSE {h \o t : h \in Perms(process_category(Head(categories), documents, text)),
                   t \in generate_urls(use_all, Tail(categories), documents, text)}

\* the entries generate_urls leaves in page_url_to_content
CacheAfterGenerate(cache, categories, documents, text) ==
    LET added == UNION {process_category(categories[i], documents, text)
                          : i \in 1..Len(categories)}
    IN [u \in URLS |-> IF u \in added
                       THEN [present |-> TRUE, title |-> Title(u),
                             content |-> text[u]]
                       ELSE cache[u]]

RECURSIVE FirstMissing(_, _, _)
FirstMissing(urls, cache, i) ==
    IF i > Len(urls) THEN 0
    ELSE IF ~cache[urls[i]].present THEN i
    ELSE FirstMissing(urls, cache, i + 1)

\* the fetch that leaves out a url without cache entry instead of raising
urls_to_text_documents_SkipMissing(urls, cache) ==
    LET known == SelectSeq(urls, LAMBDA u : cache[u].present)
    IN IF known = <<>> THEN [raised |-> FALSE, error |-> NULL, docs |-> {}]
       ELSE IF ~TextDocumentHashable
       THEN [raised |-> TRUE, error |-> "TypeError", docs |-> {}]
       ELSE [raised |-> FALSE, error |-> NULL,
             docs |-> {TextDocument(cache[known[i]].title,
                                    cache[known[i]].content,
                                    <<"url", known[i]>>, known[i])
                         : i \in 1..Len(known)}]

\* urls_to_text_documents(urls): documents.update(...) hashes the first
\* document it is given; create_document raises KeyError for a url that is
\* not in page_url_to_content
urls_to_text_documents(urls, cache) ==
    IF urls = <<>> THEN [raised |-> FALSE, error |-> NULL, docs |-> {}]
    ELSE IF FirstMissing(urls, cache, 1) = 1
    THEN [raised |-> TRUE, error |-> "KeyError", docs |-> {}]
    ELSE IF ~TextDocumentHashable
    THEN [raised |-> TRUE, error |-> "TypeError", docs |-> {}]
    ELSE IF FirstMissing(urls, cache, 1) # 0
    THEN [raised |-> TRUE, error |-> "KeyError", docs |-> {}]
    ELSE [raised |-> FALSE, error |-> NULL,
          docs |-> {TextDocument(cache[urls[i]].title, cache[urls[i]].content,
                                 <<"url", urls[i]>>, urls[i])
                      : i \in 1..Len(urls)}]

\* ------------------------------------------------- PipelineEntryPoint
DATA_SOURCE_REGISTRY == {"wikipedia"}

SNIPPER_REGISTRY == {"simple"}

EMBEDDER_REGISTRY == {"dummy"}

\* the attributes of historia.indexing.models that getattr can find
ModelNames == {"Document", "WikipediaDocument", "Index", "Embedding",
               "IndexedDocumentSnippet"}

\* `not x` for a configuration value
Falsy(x) == x = NULL \/ x = ""

\* get_document_data_model: config.get("document_data_model", "Document")
get_document_data_model(config) ==
    IF config.document_data_model = NULL THEN "Document"
    ELSE config.document_data_model

\* the checks without the one of line 285
ConfigError_IndexNameUnchecked(config) ==
    IF Falsy(config.data_source) \/ config.data_source \notin DATA_SOURCE_REGISTRY
    THEN "data_source"
    ELSE IF config.categories = <<>> THEN "categories"
    ELSE IF Falsy(config.snipper_type) \/ config.snipper_type \notin SNIPPER_REGISTRY
    THEN "snipper"
    ELSE IF Falsy(config.embedder_type) \/ config.embedder_type \notin EMBEDDER_REGISTRY
    THEN "embedder"
    ELSE IF get_document_data_model(config) \notin ModelNames
    THEN "document_data_model"
    ELSE NULL

\* What lines 278-286 (191-199 in the parallel runner) raise for a
\* configuration, in the order of the checks; NULL when nothing is raised
ConfigError(config) ==
    IF Falsy(config.data_source) \/ config.data_source \notin DATA_SOURCE_REGISTRY
    THEN "data_source"
    ELSE IF config.categories = <<>> THEN "categories"
    ELSE IF Falsy(config.snipper_type) \/ config.snipper_type \notin SNIPPER_REGISTRY
    THEN "snipper"
    ELSE IF Falsy(config.embedder_type) \/ config.embedder_type \notin EMBEDDER_REGISTRY
    THEN "embedder"
    ELSE IF get_document_data_model(config) \notin ModelNames
    THEN "document_data_model"
    ELSE IF Falsy(config.index_name) THEN "index_name"
    ELSE NULL

\* get_documents_to_index(urls, document_data_model): only WikipediaDocument
\* has a url field, Document.objects.filter(url__in=...) raises FieldError
get_documents_to_index(urls, document_data_model, db) ==
    IF document_data_model = "WikipediaDocument"
    THEN [raised |-> FALSE, error |-> NULL,
          docs |-> {r \in db.documents : \E i \in 1..Len(urls) : r.url = urls[i]}]
    ELSE [raised |-> TRUE, error |-> "FieldError", docs |-> {}]

\* one entry of the record of stage operations a run has invoked
Call(op, url, ok) == [op |-> op, url |-> url, ok |-> ok]

\* ------------------------------------------- the per-url work of a runner
\* The state a runner threads through its per-url work:
\*   db, url_failures, db_failures, index_failures, log, aborted
\* (aborted: an exception left the per-item handlers and ends the run)

\* lines 316-326: get_documents_to_index and index_documents in their try
DirectIndexDoc(s, doc, cfg) ==
    LET g == get_documents_to_index(<<doc.url>>, cfg.document_data_model, s.db)
    IN IF g.raised
       THEN [s EXCEPT !.index_failures = Append(@, <<doc.url, g.error>>)]
       ELSE LET x == index_documents(s.db, g.docs, cfg.index_name,
                                     [snippet_length |-> cfg.snippet_length],
                                     cfg.embedder_type)
                logged == [s EXCEPT !.db = x.db,
                              !.log = Append(@, Call("index_documents", doc.url,
                                                     ~x.raised))]
            IN IF x.raised
               THEN [logged EXCEPT !.index_failures =
                                       Append(@, <<doc.url, "index_documents">>)]
               ELSE logged

\* lines 310-330: the set literal {doc}, write_documents_to_database, and
\* the index step, in the try that records a "write_documents" failure
DirectWriteDoc(s, doc, cfg, dbError) ==
    IF ~TextDocumentHashable
    THEN [s EXCEPT !.db_failures = Append(@, <<doc.url, "TypeError">>)]
    ELSE LET w == write_documents_to_database(s.db, <<doc>>, dbError)
             logged == [s EXCEPT !.db = w.db,
                           !.log = Append(@, Call("write_documents_to_database",
                                                  doc.url, ~w.raised))]
         IN IF w.raised
            THEN [logged EXCEPT !.db_failures =
                                    Append(@, <<doc.url, "write_documents">>)]
            ELSE DirectIndexDoc(logged, doc, cfg)

RECURSIVE DirectDocsLoop(_, _, _, _, _)
\* line 309: for doc in docs
DirectDocsLoop(s, docs, i, cfg, dbError) ==
    IF i > Len(docs) THEN s
    ELSE DirectDocsLoop(DirectWriteDoc(s, docs[i], cfg, dbError),
                        docs, i + 1, cfg, dbError)

\* the loop body with the persist step outside the try of the fetch: a url
\* whose fetch raised is recorded and written all the same
DirectProcessUrl_PersistAfterFailedFetch(s, url, cfg, cache, dbError) ==
    LET f == urls_to_text_documents(<<url>>, cache)
        logged == [s EXCEPT !.log = Append(@, Call("urls_to_text_documents",
                                                   url, ~f.raised))]
    IN IF f.raised
       THEN [logged EXCEPT !.url_failures = Append(@, <<url, f.error>>),
                           !.log = Append(@, Call("write_documents_to_database",
                                                  url, ~dbError))]
       ELSE DirectDocsLoop(logged, SetToSeq(f.docs), 1, cfg, dbError)

\* lines 301-334: the body of `for url in urls`
DirectProcessUrl(s, url, cfg, cache, dbError) ==
    LET f == urls_to_text_documents(<<url>>, cache)
        logged == [s EXCEPT !.log = Append(@, Call("urls_to_text_documents",
                                                   url, ~f.raised))]
    IN IF f.raised
       THEN [logged EXCEPT !.url_failures = Append(@, <<url, f.error>>)]
       ELSE DirectDocsLoop(logged, SetToSeq(f.docs), 1, cfg, dbError)

\* WriteToDBFn.process(doc) followed by "Get Documents to Index": the
\* lambda calls get_documents_to_index with one argument where two are
\* required, a TypeError no handler catches
BeamWriteDoc(s, doc, dbError) ==
    IF ~TextDocumentHashable
    THEN [s EXCEPT !.db_failures = Append(@, <<doc.url, "TypeError">>)]
    ELSE LET w == write_documents_to_database(s.db, <<doc>>, dbError)
             logged == [s EXCEPT !.db = w.db,
                           !.log = Append(@, Call("write_documents_to_database",
                                                  doc.url, ~w.raised))]
         IN IF w.raised
            THEN [logged EXCEPT !.db_failures =
                                    Append(@, <<doc.url, "write_documents">>)]
            ELSE [logged EXCEPT !.aborted = TRUE]

RECURSIVE BeamDocsLoop(_, _, _, _)
BeamDocsLoop(s, docs, i, dbError) ==
    IF i > Len(docs) \/ s.aborted THEN s
    ELSE BeamDocsLoop(BeamWriteDoc(s, docs[i], dbError), docs, i + 1, dbError)

\* UrlToDocumentFn.process(url) and what the fused transforms after it do
\* with its output
BeamProcessElement(s, url, cache, dbError) ==
    LET f == urls_to_text_documents(<<url>>, cache)
        logged == [s EXCEPT !.log = Append(@, Call("urls_to_text_documents",
                                                   url, ~f.raised))]
    IN IF f.raised
       THEN [logged EXCEPT !.url_failures = Append(@, <<url, f.error>>)]
       ELSE BeamDocsLoop(logged, SetToSeq(f.docs), 1, dbError)

\* handle_failures(failures, step): the callback is called only for a
\* non-empty list, with the urls, the first error and the step
handle_failures(reports, failures, step) ==
    IF failures # <<>>
    THEN Append(reports,
                [step |-> step,
                 failed_urls |-> [i \in 1..Len(failures) |-> failures[i][1]],
                 error |-> failures[1][2]])
    ELSE reports

\* lines 339-341 and 255-257
handle_all_failures(reports, url_fails, db_fails, index_fails) ==
    handle_failures(
        handle_failures(
            handle_failures(reports, url_fails, "url_to_documents"),
            db_fails, "write_documents"),
        index_fails, "indexing")

\* "Combine Failures" and "Handle Failures", lines 265-269.  CoGroupByKey
\* takes each element of its inputs apart as a (key, value) pair, and the
\* one element of a ToList output is the whole list; what it emits is a
\* pair (key, values), which the lambda spreads over the three parameters
\* of handle_all_failures.
CoGroupPairLen == 2

HandleAllFailuresParams == 3

BeamCombineRaises(url_fails, db_fails, index_fails) ==
    \/ Len(url_fails) # CoGroupPairLen
    \/ Len(db_fails) # CoGroupPairLen
    \/ Len(index_fails) # CoGroupPairLen
    \/ CoGroupPairLen # HandleAllFailuresParams

\* ------------------------------------------------------------ the state
VARIABLES
    db,                   \* the tables
    corpus,               \* url -> current text of the page
    page_url_to_content,  \* the module-level cache of wikipedia.py
    max_retries,          \* PipelineEntryPoint.max_retries
    pc,                   \* "idle", "generate", "loop", "done", "raised"
    runner,               \* "direct" (DirectEntryPoint) or "beam" (BeamEntryPoint)
    attempts,             \* run attempts made by the current run_pipeline call
    use_all,              \* the use_all argument of the current run_pipeline call
    config,               \* the configuration file the runs load
    urls,                 \* the urls still to be processed
    discovered,           \* the list generate_urls returned to the run
    url_failures,         \* list of (url, error)
    db_failures,          \* list of (url, error)
    index_failures,       \* list of (url, error)
    reports,              \* the calls of failure_callback made by the run
    log,                  \* the stage operations the run invoked, in order
    raisedAt,             \* what made run_pipeline raise, NULL otherwise
    startDb,              \* the tables when the run started
    outcomes,             \* how the last run of each runner ended
    runs,                 \* run_pipeline calls made so far
    calls,                \* direct calls of data-source operations so far
    content,              \* the content handed to generate_snippets
    snipper,              \* the snipper object
    gpc,                  \* "idle", "start", "loop", "done", "raised", "embedded"
    current_pos,          \* the cursor of BasicParagraphSnipper.generate_snippets
    yielded,              \* the snippets the generator has yielded so far
    iterations,           \* iterations of the `while` loop made so far
    embedding             \* the last call of embed and what it returned

vars == <<db, corpus, page_url_to_content, max_retries, pc, runner, attempts,
          use_all, config, urls, discovered, url_failures, db_failures, index_failures,
          reports, log, raisedAt, startDb, outcomes, runs, calls, content,
          snipper, gpc, current_pos, yielded, iterations, embedding>>

textVars == <<content, snipper, gpc, current_pos, yielded, iterations,
              embedding>>

runVars == <<pc, runner, attempts, use_all, config, urls, discovered, url_failures,
             db_failures, index_failures, reports, log, raisedAt, startDb,
             outcomes, runs>>

\* ---------------------------------------------------------------- inputs
BaseConfig ==
    [data_source |-> "wikipedia", categories |-> <<"A">>,
     snipper_type |-> "simple", snippet_length |-> 1,
     embedder_type |-> "dummy", index_name |-> "i1",
     document_data_model |-> NULL]

ValidConfigs ==
    {[BaseConfig EXCEPT !.categories = c, !.snippet_length = k,
                        !.document_data_model = m]
       : c \in {<<"A">>, <<"B">>, <<"A", "B">>}, k \in {1, 2},
         m \in {NULL, "WikipediaDocument"}}

InvalidConfigs ==
    {[BaseConfig EXCEPT !.data_source = x] : x \in {NULL, "", "arxiv"}}
    \cup {[BaseConfig EXCEPT !.snipper_type = x] : x \in {NULL, "paragraph"}}
    \cup {[BaseConfig EXCEPT !.embedder_type = x] : x \in {NULL, "ollama"}}
    \cup {[BaseConfig EXCEPT !.index_name = x] : x \in {NULL, ""}}
    \cup {[BaseConfig EXCEPT !.categories = <<>>],
          [BaseConfig EXCEPT !.document_data_model = "Page"],
          [BaseConfig EXCEPT !.snipper_type = NULL, !.index_name = NULL]}

Configs == ValidConfigs \cup InvalidConfigs

NoOutcome ==
    [present |-> FALSE, start |-> EmptyDb, use_all |-> FALSE,
     discovered |-> {}, status |-> "idle", raisedAt |-> NULL, url_failed |-> {}, db_failed |-> {},
     index_failed |-> {}, reported |-> {}, persisted |-> {}, indexed |-> {}]

\* the urls of a failure list
FailedUrls(failures) == {failures[i][1] : i \in 1..Len(failures)}

\* the urls for which the run invoked op with the given result
Invoked(op, ok) == {log[i].url : i \in {j \in 1..Len(log) :
                                          log[j].op = op /\ log[j].ok = ok}}

Persisted1 ==
    write_documents_to_database(
        EmptyDb, <<TextDocument("T1", Str_a_b, <<"url", "u1">>, "u1")>>, FALSE).db

\* the tables a run can find: nothing, or page u1 written by an earlier
\* write_documents_to_database
InitDbs == {EmptyDb, Persisted1}

Corpora == {[u \in URLS |-> IF u = "u1" THEN c ELSE Str_a_a]
              : c \in {Str_a_b, Str_b}}

InitCommon ==
    /\ page_url_to_content = [u \in URLS |-> NoEntry]
    /\ pc = "idle"
    /\ runner = "direct"
    /\ attempts = 0
    /\ use_all = FALSE
    /\ urls = <<>>
    /\ discovered = <<>>
    /\ url_failures = <<>>
    /\ db_failures = <<>>
    /\ index_failures = <<>>
    /\ reports = <<>>
    /\ log = <<>>
    /\ raisedAt = NULL
    /\ outcomes = [r \in {"direct", "beam"} |-> NoOutcome]
    /\ runs = 0
    /\ calls = <<>>

NoEmbedding ==
    [embedder |-> NULL, arg |-> ListArg(<<>>), raised |-> FALSE,
     vectors |-> <<>>]

\* no snipper or embedder is at work
InitTextIdle ==
    /\ content = <<>>
    /\ snipper = SimpleSnipper(1)
    /\ gpc = "idle"
    /\ current_pos = 0
    /\ yielded = <<>>
    /\ iterations = 0
    /\ embedding = NoEmbedding

Init ==
    /\ InitCommon
    /\ InitTextIdle
    /\ config \in Configs
    /\ db \in InitDbs
    /\ startDb = db
    /\ corpus \in Corpora
    /\ max_retries \in {1, 2, DefaultMaxRetries}

\* ----------------------------------------------------- run_pipeline steps
\* The per-url state of the run, as the per-url operators take it
RunState ==
    [db |-> db, url_failures |-> url_failures, db_failures |-> db_failures,
     index_failures |-> index_failures, log |-> log, aborted |-> FALSE]

\* run_pipeline is called: lines 277-290 (191-202 in the parallel runner).
\* There is one attempt; max_retries is stored by __init__ and read nowhere.
RunStart(r, ua) ==
    /\ pc = "idle"
    /\ runs < MaxRuns
    /\ runs' = runs + 1
    /\ runner' = r
    /\ use_all' = ua
    /\ attempts' = 1
    /\ startDb' = db
    /\ urls' = <<>>
    /\ discovered' = <<>>
    /\ url_failures' = <<>>
    /\ db_failures' = <<>>
    /\ index_failures' = <<>>
    /\ reports' = <<>>
    /\ log' = <<>>
    /\ raisedAt' = ConfigError(config)
    /\ pc' = IF ConfigError(config) # NULL THEN "raised" ELSE "generate"
    /\ UNCHANGED <<db, corpus, page_url_to_content, max_retries, config,
                   outcomes, calls>>
    /\ UNCHANGED textVars

\* lines 294-296: generate_urls is called twice by the sequential runner
\* (GenerateUrlsFn calls it once); failAt is the call on which the corpus
\* API raises, 0 for none
GenerateUrls(failAt) ==
    /\ pc = "generate"
    /\ failAt \in (IF runner = "direct" THEN {0, 1, 2} ELSE {0, 1})
    /\ LET ncalls == IF failAt # 0 THEN failAt
                     ELSE IF runner = "direct" THEN 2 ELSE 1
           filled == failAt # 1
       IN /\ log' = log \o [i \in 1..ncalls |->
                               Call("generate_urls", NULL, i # failAt)]
          /\ page_url_to_content' =
                 IF filled
                 THEN CacheAfterGenerate(page_url_to_content, config.categories,
                                         db.documents, corpus)
                 ELSE page_url_to_content
          /\ IF failAt # 0
             THEN /\ pc' = "raised"
                  /\ raisedAt' = "generate_urls"
                  /\ UNCHANGED <<urls, discovered>>
             ELSE /\ \E us \in generate_urls(use_all, config.categories,
                                               db.documents, corpus) :
                        urls' = us /\ discovered' = us
                  /\ pc' = "loop"
                  /\ UNCHANGED raisedAt
    /\ UNCHANGED <<db, corpus, max_retries, runner, attempts, config,
                   url_failures, db_failures, index_failures, reports, startDb,
                   outcomes, runs, calls>>
    /\ UNCHANGED textVars
    /\ UNCHANGED use_all

\* the loop taking the urls from the end of the list
DirectLoopStep_LastFirst(dbError) ==
    /\ pc = "loop"
    /\ runner = "direct"
    /\ urls # <<>>
    /\ LET s == DirectProcessUrl(RunState, urls[Len(urls)], config,
                                 page_url_to_content, dbError)
       IN /\ db' = s.db
          /\ url_failures' = s.url_failures
          /\ db_failures' = s.db_failures
          /\ index_failures' = s.index_failures
          /\ log' = s.log
    /\ urls' = SubSeq(urls, 1, Len(urls) - 1)
    /\ UNCHANGED <<corpus, page_url_to_content, max_retries, pc, runner,
                   attempts, config, discovered, reports, raisedAt, startDb,
                   outcomes, runs, calls>>
    /\ UNCHANGED textVars
    /\ UNCHANGED use_all

\* one iteration of `for url in urls`, lines 301-334
DirectLoopStep(dbError) ==
    /\ pc = "loop"
    /\ runner = "direct"
    /\ urls # <<>>
    /\ LET s == DirectProcessUrl(RunState, Head(urls), config,
                                 page_url_to_content, dbError)
       IN /\ db' = s.db
          /\ url_failures' = s.url_failures
          /\ db_failures' = s.db_failures
          /\ index_failures' = s.index_failures
          /\ log' = s.log
    /\ urls' = Tail(urls)
    /\ UNCHANGED <<corpus, page_url_to_content, max_retries, pc, runner,
                   attempts, config, discovered, reports, raisedAt, startDb,
                   outcomes, runs, calls>>
    /\ UNCHANGED textVars
    /\ UNCHANGED use_all

\* the loop is over: lines 336-350, and run_pipeline returns
DirectFinish ==
    /\ pc = "loop"
    /\ runner = "direct"
    /\ urls = <<>>
    /\ reports' = handle_all_failures(reports, url_failures, db_failures,
                                      index_failures)
    /\ pc' = "done"
    /\ UNCHANGED <<db, corpus, page_url_to_content, max_retries, runner,
                   attempts, config, urls, discovered, url_failures,
                   db_failures, index_failures, log, raisedAt, startDb,
                   outcomes, runs, calls>>
    /\ UNCHANGED textVars
    /\ UNCHANGED use_all

\* the parallel runner takes any element of the url collection through
\* lines 213-246
BeamElementStep(i, dbError) ==
    /\ pc = "loop"
    /\ runner = "beam"
    /\ i \in 1..Len(urls)
    /\ LET s == BeamProcessElement(RunState, urls[i], page_url_to_content,
                                   dbError)
       IN /\ db' = s.db
          /\ url_failures' = s.url_failures
          /\ db_failures' = s.db_failures
          /\ index_failures' = s.index_failures
          /\ log' = s.log
          /\ pc' = IF s.aborted THEN "raised" ELSE pc
          /\ raisedAt' = IF s.aborted THEN "get_documents_to_index" ELSE raisedAt
    /\ urls' = [j \in 1..(Len(urls) - 1) |-> IF j < i THEN urls[j] ELSE urls[j + 1]]
    /\ UNCHANGED <<corpus, page_url_to_content, max_retries, runner, attempts,
                   config, discovered, reports, startDb, outcomes, runs, calls>>
    /\ UNCHANGED textVars
    /\ UNCHANGED use_all

\* every element is through: the failure lists are combined, lines 254-269,
\* and the `with` block of line 204 ends
BeamFinish ==
    /\ pc = "loop"
    /\ runner = "beam"
    /\ urls = <<>>
    /\ IF BeamCombineRaises(url_failures, db_failures, index_failures)
       THEN /\ pc' = "raised"
            /\ raisedAt' = "combine_failures"
            /\ UNCHANGED reports
       ELSE /\ pc' = "done"
            /\ reports' = handle_all_failures(reports, url_failures,
                                              db_failures, index_failures)
            /\ UNCHANGED raisedAt
    /\ UNCHANGED <<db, corpus, page_url_to_content, max_retries, runner,
                   attempts, config, urls, discovered, url_failures,
                   db_failures, index_failures, log, startDb, outcomes, runs,
                   calls>>
    /\ UNCHANGED textVars
    /\ UNCHANGED use_all

\* run_pipeline has returned or raised; the caller (__main__.main) goes on
Return ==
    /\ pc \in {"done", "raised"}
    /\ pc' = "idle"
    /\ outcomes' = [outcomes EXCEPT ![runner] =
           [present |-> TRUE, start |-> startDb, use_all |-> use_all,
            discovered |-> {discovered[i] : i \in 1..Len(discovered)},
            status |-> pc,
            raisedAt |-> raisedAt,
            url_failed |-> FailedUrls(url_failures),
            db_failed |-> FailedUrls(db_failures),
            index_failed |-> FailedUrls(index_failures),
            reported |-> {<<reports[i].step, reports[i].failed_urls>>
                            : i \in 1..Len(reports)},
            persisted |-> Invoked("write_documents_to_database", TRUE),
            indexed |-> Invoked("index_documents", TRUE)]]
    /\ UNCHANGED <<db, corpus, page_url_to_content, max_retries, runner,
                   attempts, config, urls, discovered, url_failures,
                   db_failures, index_failures, reports, log, raisedAt,
                   startDb, runs, calls>>
    /\ UNCHANGED textVars
    /\ UNCHANGED use_all

\* between two runs a page of the corpus is edited
EditCorpus(u, c) ==
    /\ pc = "idle"
    /\ \E k \in Corpora : k[u] = c
    /\ corpus[u] # c
    /\ corpus' = [corpus EXCEPT ![u] = c]
    /\ UNCHANGED <<db, page_url_to_content, max_retries, calls, runVars,
                   textVars>>

Next ==
    \/ \E r \in {"direct", "beam"}, ua \in BOOLEAN : RunStart(r, ua)
    \/ \E u \in URLS, c \in Contents : EditCorpus(u, c)
    \/ \E failAt \in 0..2 : GenerateUrls(failAt)
    \/ \E dbError \in BOOLEAN : DirectLoopStep(dbError)
    \/ DirectFinish
    \/ \E i \in 1..3, dbError \in BOOLEAN : BeamElementStep(i, dbError)
    \/ BeamFinish
    \/ Return

Spec == Init /\ [][Next]_vars

\* ------------------------------------- the data source, called directly
\* The documents a caller hands to write_documents_to_database.  A
\* TextDocument cannot be put in a set, so the collection is a list.
TextDocs ==
    {TextDocument("T1", Str_a_a, <<"url", u>>, u) : u \in URLS}
    \cup {TextDocument("T2", Str_a_b, <<"rev", "2">>, u) : u \in URLS}

WriteInputs ==
    {<<d>> : d \in TextDocs}
    \cup {<<d1, d2>> : d1 \in {d \in TextDocs : d.title = "T1"},
                       d2 \in {d \in TextDocs : d.title = "T2"}}

IndexNames == {"i1", "i2"}

SnippetLengths == {0, 1, 2}

\* data_source.write_documents_to_database(docs)
CallWrite(docs, dbError) ==
    /\ pc = "idle"
    /\ Len(calls) < MaxCalls
    /\ LET w == write_documents_to_database(db, docs, dbError)
       IN /\ db' = w.db
          /\ calls' = Append(calls, [op |-> "write", docs |-> docs,
                                     index_name |-> NULL, snippet_length |-> 0,
                                     embedder |-> NULL, raised |-> w.raised])
    /\ UNCHANGED <<corpus, page_url_to_content, max_retries, runVars>>
    /\ UNCHANGED textVars

\* the embedders handed to index_documents: the DummyEmbedder and an
\* OllamaEmbedder(model="all-minilm")
Embedders == {"dummy", "ollama:all-minilm"}

\* data_source.index_documents(documents, index_name, snipper, embedder)
\* with persisted documents, a SimpleSnipper and an embedder
CallIndex(documents, index_name, snippet_length, embedder) ==
    /\ pc = "idle"
    /\ Len(calls) < MaxCalls
    /\ documents # {}
    /\ LET x == index_documents(db, documents, index_name,
                                [snippet_length |-> snippet_length], embedder)
       IN /\ db' = x.db
          /\ calls' = Append(calls, [op |-> "index",
                                     docs |-> {d.id : d \in documents},
                                     index_name |-> index_name,
                                     snippet_length |-> snippet_length,
                                     embedder |-> embedder,
                                     raised |-> x.raised])
    /\ UNCHANGED <<corpus, page_url_to_content, max_retries, runVars>>
    /\ UNCHANGED textVars

InitStore ==
    /\ InitCommon
    /\ InitTextIdle
    /\ config = BaseConfig
    /\ db = EmptyDb
    /\ startDb = db
    /\ corpus = [u \in URLS |-> Str_a_b]
    /\ max_retries = DefaultMaxRetries

NextStore ==
    \/ \E docs \in WriteInputs, dbError \in BOOLEAN : CallWrite(docs, dbError)
    \/ \E documents \in SUBSET db.documents, index_name \in IndexNames,
          snippet_length \in SnippetLengths, embedder \in Embedders :
              CallIndex(documents, index_name, snippet_length, embedder)

SpecStore == InitStore /\ [][NextStore]_vars

\* ------------------------------ the snippers and embedders, called directly
Alphabet == {"a", " ", "\n", "."}

Texts == UNION {[1..n -> Alphabet] : n \in 0..MaxLen}

Snippers ==
    {SimpleSnipper(k) : k \in 0..3}
    \cup {BasicParagraphSnipper(m, a) :
            m \in {1, 2, 4, MaxLen + 1, DefaultMaxTokens},
            a \in {<<>>, <<0>>, <<1>>, <<2>>}}

\* list(SimpleSnipper(k).generate_snippets(content))
ApplySimple ==
    /\ gpc = "start"
    /\ snipper.type = "simple"
    /\ LET g == SimpleSnipper_generate_snippets(snipper.snippet_length, content)
       IN /\ yielded' = g.snippets
          /\ gpc' = IF g.raised THEN "raised" ELSE "done"
    /\ UNCHANGED <<content, snipper, current_pos, iterations, embedding>>
    /\ UNCHANGED <<db, corpus, page_url_to_content, max_retries, calls, runVars>>

\* one iteration of the loop of BasicParagraphSnipper.generate_snippets
ParagraphStep ==
    /\ gpc \in {"start", "loop"}
    /\ snipper.type = "paragraph"
    /\ current_pos < Len(content)
    /\ iterations < MaxIter
    /\ LET it == ParagraphIteration(content, current_pos, snipper.max_tokens,
                                    snipper.min_tokens)
       IN /\ yielded' = IF it.yields THEN Append(yielded, it.snippet)
                        ELSE yielded
          /\ current_pos' = it.current_pos
    /\ iterations' = iterations + 1
    /\ gpc' = "loop"
    /\ UNCHANGED <<content, snipper, embedding>>
    /\ UNCHANGED <<db, corpus, page_url_to_content, max_retries, calls, runVars>>

\* the loop condition of line 62 fails: the generator is exhausted
ParagraphReturn ==
    /\ gpc \in {"start", "loop"}
    /\ snipper.type = "paragraph"
    /\ current_pos >= Len(content)
    /\ gpc' = "done"
    /\ UNCHANGED <<content, snipper, current_pos, yielded, iterations,
                   embedding>>
    /\ UNCHANGED <<db, corpus, page_url_to_content, max_retries, calls, runVars>>

\* embedder.embed(texts) with the snippets that were yielded (a list) or
\* with the whole content (a str)
ApplyEmbed(embedder, isstr, failAt) ==
    /\ gpc = "done"
    /\ LET arg == IF isstr THEN StrArg(content) ELSE ListArg(yielded)
           e == IF embedder = "dummy" THEN DummyEmbedder_embed_arg(arg)
                ELSE OllamaEmbedder_embed_arg(arg, failAt)
       IN embedding' = [embedder |-> embedder, arg |-> arg,
                        raised |-> e.raised, vectors |-> e.vectors]
    /\ gpc' = "embedded"
    /\ UNCHANGED <<content, snipper, current_pos, yielded, iterations>>
    /\ UNCHANGED <<db, corpus, page_url_to_content, max_retries, calls, runVars>>

InitText ==
    /\ InitCommon
    /\ config = BaseConfig
    /\ db = EmptyDb
    /\ startDb = db
    /\ corpus = [u \in URLS |-> Str_a_b]
    /\ max_retries = DefaultMaxRetries
    /\ content \in Texts
    /\ snipper \in Snippers
    /\ gpc = "start"
    /\ current_pos = 0
    /\ yielded = <<>>
    /\ iterations = 0
    /\ embedding = NoEmbedding

NextText ==
    \/ ApplySimple
    \/ ParagraphStep
    \/ ParagraphReturn
    \/ \E embedder \in {"dummy", "ollama"}, isstr \in BOOLEAN, failAt \in 0..2 :
           ApplyEmbed(embedder, isstr, failAt)

SpecText == InitText /\ [][NextText]_vars

\* -------------------- discovery and fetch of the data source, called directly
\* the url lists a caller hands to urls_to_text_documents
FetchInputs == {<<>>, <<"u1">>, <<"u2">>, <<"u1", "u2">>, <<"u2", "u1">>}

\* data_source.generate_urls(use_all=ua)
CallGenerateUrls(ua) ==
    /\ pc = "idle"
    /\ Len(calls) < MaxCalls
    /\ \E us \in generate_urls(ua, config.categories, db.documents, corpus) :
           calls' = Append(calls, [op |-> "generate_urls", use_all |-> ua,
                                   urls |-> us, raised |-> FALSE,
                                   error |-> NULL])
    /\ page_url_to_content' =
           CacheAfterGenerate(page_url_to_content, config.categories,
                              db.documents, corpus)
    /\ UNCHANGED <<db, corpus, max_retries, runVars, textVars>>

\* data_source.urls_to_text_documents(us)
CallFetch(us) ==
    /\ pc = "idle"
    /\ Len(calls) < MaxCalls
    /\ LET f == urls_to_text_documents(us, page_url_to_content)
       IN calls' = Append(calls, [op |-> "urls_to_text_documents",
                                  use_all |-> FALSE, urls |-> us,
                                  raised |-> f.raised, error |-> f.error])
    /\ UNCHANGED <<db, corpus, page_url_to_content, max_retries, runVars,
                   textVars>>

InitSource ==
    /\ InitCommon
    /\ InitTextIdle
    /\ config \in {c \in ValidConfigs : c.snippet_length = BaseConfig.snippet_length
                                        /\ c.document_data_model = NULL}
    /\ db \in InitDbs
    /\ startDb = db
    /\ corpus \in Corpora
    /\ max_retries = DefaultMaxRetries

NextSource ==
    \/ \E ua \in BOOLEAN : CallGenerateUrls(ua)
    \/ \E us \in FetchInputs : CallFetch(us)

SpecSource == InitSource /\ [][NextSource]_vars

\* ============================================================ properties
\* what run_pipeline can raise for before its per-item work starts
ConfigCauses == {"data_source", "categories", "snipper", "embedder",
                 "document_data_model", "index_name"}

DiscoveredSet == {discovered[i] : i \in 1..Len(discovered)}

\* the discovered identifiers that cannot be resolved to content
Unresolvable == {u \in DiscoveredSet : ~page_url_to_content[u].present}

\* the failed urls the failure callback was given for a step
Reported(step) ==
    UNION {FailedUrls([j \in 1..Len(reports[i].failed_urls) |->
                          <<reports[i].failed_urls[j]>>])
             : i \in {k \in 1..Len(reports) : reports[k].step = step}}

\* C1: with max_retries = m, when generate_urls raises on every call the
\* sequential run makes exactly m attempts before it raises, and no fetch,
\* persist or index operation is invoked on any attempt.
C1_RetryCeiling ==
    (/\ pc = "raised"
     /\ runner = "direct"
     /\ raisedAt = "generate_urls"
     /\ \A i \in 1..Len(log) : log[i].op = "generate_urls" => ~log[i].ok)
    => /\ attempts = max_retries
       /\ \A i \in 1..Len(log) : log[i].op = "generate_urls"

\* C2: when a run is complete and fetch could not resolve a strict subset F
\* of the discovered identifiers, the "url_to_documents" failures are
\* exactly F and persist and index were invoked for every other identifier.
C2_PartialFailureIsolation ==
    (pc = "done" /\ Unresolvable # DiscoveredSet)
    => /\ FailedUrls(url_failures) = Unresolvable
       /\ Reported("url_to_documents") = Unresolvable
       /\ \A u \in DiscoveredSet \ Unresolvable :
              /\ \E i \in 1..Len(log) :
                     log[i].op = "write_documents_to_database" /\ log[i].url = u
              /\ \E i \in 1..Len(log) :
                     log[i].op = "index_documents" /\ log[i].url = u

\* the latest entry of the log before position i for op on url u; 0 if none
LastBefore(i, op, u) ==
    LET js == {j \in 1..(i - 1) : log[j].op = op /\ log[j].url = u}
    IN IF js = {} THEN 0 ELSE Max(js)

NoOrphanEmbedding ==
    \A e \in db.embeddings : \E r \in db.snippets : r.embedding = e.id

\* C4: when a sequential run is complete, every document that fetch could
\* resolve and persist did not refuse is either indexed, or recorded and
\* reported under "indexing" with no row of the failed call remaining; a
\* failed document does not keep the others from being indexed.
C4_IndexFailureIsolation ==
    pc = "done"
    => \A u \in DiscoveredSet \ Unresolvable :
           \/ u \in Invoked("write_documents_to_database", FALSE)
           \/ u \in Invoked("index_documents", TRUE)
           \/ /\ u \in FailedUrls(index_failures)
              /\ u \in Reported("indexing")
              /\ NoOrphanEmbedding

\* C5: run_pipeline raises only for a configuration error or a failure of
\* discovery; per-item errors leave it to return normally, with a failure
\* report whenever an item failed.
C5_ItemFailuresComplete ==
    /\ pc = "raised" => raisedAt \in ConfigCauses \cup {"generate_urls"}
    /\ (pc = "done" /\ (url_failures # <<>> \/ db_failures # <<>>
                        \/ index_failures # <<>>))
       => reports # <<>>

\* the configurations C6 is about
C6_BadConfig ==
    \/ Falsy(config.data_source) \/ config.data_source # "wikipedia"
    \/ Falsy(config.snipper_type) \/ config.snipper_type # "simple"
    \/ Falsy(config.embedder_type) \/ config.embedder_type # "dummy"
    \/ Falsy(config.index_name)

\* C6: with a missing or unregistered data_source, snipper.type or
\* embedder.type, or an empty or missing index_name, run_pipeline raises
\* before any stage operation is invoked, makes one attempt only and calls
\* the failure callback never.
C6_ConfigErrorBeforeAnyStage ==
    C6_BadConfig
    => /\ pc \in {"idle", "raised"}
       /\ pc = "raised" => raisedAt \in ConfigCauses
       /\ log = <<>>
       /\ reports = <<>>
       /\ attempts <= 1

\* a run of each runner has raised for a bad snipper or index name
C6_Witness ==
    /\ C6_BadConfig
    /\ pc = "raised"
    /\ runs = 2
    /\ outcomes[IF runner = "beam" THEN "direct" ELSE "beam"].status = "raised"
    /\ Falsy(config.index_name)

\* C7: a sequential and a parallel run that start from the same tables and
\* discover the same identifiers both return normally, with the same failed
\* identifiers per stage and the same persisted and indexed documents.
C7_RunnersEquivalent ==
    LET d == outcomes["direct"]
        b == outcomes["beam"]
    IN (/\ d.present /\ b.present
        /\ d.start = b.start
        /\ d.discovered = b.discovered
        /\ d.raisedAt \notin ConfigCauses \cup {"generate_urls"}
        /\ b.raisedAt \notin ConfigCauses \cup {"generate_urls"})
       => /\ d.status = "done" /\ b.status = "done"
          /\ d.url_failed = b.url_failed
          /\ d.db_failed = b.db_failed
          /\ d.index_failed = b.index_failed
          /\ d.persisted = b.persisted
          /\ d.indexed = b.indexed

\* C8: when a parallel run is over, every discovered document that fetch
\* could resolve and persist did not refuse was written, re-resolved and
\* handed to index_documents, so that it is indexed or recorded under
\* "indexing".
C8_WrittenDocumentsIndexed ==
    (/\ runner = "beam"
     /\ pc \in {"done", "raised"}
     /\ raisedAt \notin ConfigCauses \cup {"generate_urls"})
    => \A u \in DiscoveredSet \ Unresolvable :
           \/ u \in Invoked("write_documents_to_database", FALSE)
           \/ /\ u \in Invoked("write_documents_to_database", TRUE)
              /\ \/ u \in Invoked("index_documents", TRUE)
                 \/ u \in FailedUrls(index_failures)

\* C9: a call of write_documents_to_database that returns leaves, for every
\* url it was given, exactly one document record, holding the title, content
\* and metadata of the call (also when the url was written before), and
\* leaves the records of the other urls as they were.
C9_IdempotentPersistence ==
    [][(/\ Len(calls') = Len(calls) + 1
        /\ calls'[Len(calls')].op = "write"
        /\ ~calls'[Len(calls')].raised)
       => LET docs == calls'[Len(calls')].docs
              written == {docs[i].url : i \in 1..Len(docs)}
              last(u) == docs[Max({i \in 1..Len(docs) : docs[i].url = u})]
          IN /\ \A u \in written :
                    LET rows == {r \in db'.documents : r.url = u}
                    IN /\ Cardinality(rows) = 1
                       /\ \A r \in rows : /\ r.title = last(u).title
                                          /\ r.content = last(u).content
                                          /\ r.metadata = last(u).metadata
             /\ {r \in db'.documents : r.url \notin written}
                    = {r \in db.documents : r.url \notin written}]_vars

\* two calls in a row wrote the same url with different field values, next
\* to a record of another url, and one record holds the second call's values
C9_Witness ==
    /\ Len(calls) = 3
    /\ \A i \in 1..3 : calls[i].op = "write" /\ ~calls[i].raised
                       /\ Len(calls[i].docs) = 1
    /\ calls[1].docs[1].url # calls[2].docs[1].url
    /\ calls[2].docs[1].url = calls[3].docs[1].url
    /\ calls[2].docs[1].title # calls[3].docs[1].title
    /\ Cardinality(db.documents) = 2
    /\ \E r \in db.documents : /\ r.url = calls[3].docs[1].url
                               /\ r.title = calls[3].docs[1].title
                               /\ r.content = calls[3].docs[1].content
                               /\ r.metadata = calls[3].docs[1].metadata

\* C10: no two indexed-snippet rows have the same index, document and
\* snippet text.
C10_SnippetUniqueness ==
    \A r1, r2 \in db.snippets :
        (r1.index = r2.index /\ r1.document = r2.document
         /\ r1.snippet = r2.snippet) => r1 = r2

\* a document was indexed and then indexed again under the same index with
\* the same snipper; the second call raised and the rows of the first remain
C10_Witness ==
    /\ Len(calls) = 3
    /\ calls[2].op = "index" /\ ~calls[2].raised
    /\ calls[3] = [calls[2] EXCEPT !.raised = TRUE]
    /\ db.snippets # {}

\* the (index, document, snippet) triples of the indexed-snippet rows
Triples(snippets) == {<<r.index, r.document, r.snippet>> : r \in snippets}

\* the snippets of a persisted document under a SimpleSnipper of length k
ChunksOf(d, k) ==
    LET g == SimpleSnipper_generate_snippets(k, d.content).snippets
    IN {g[i] : i \in 1..Len(g)}

\* C11: a call of index_documents with a usable snipper completes without
\* error also when rows of its (index, document, snippet) triples exist
\* already or a document yields the same snippet text twice, and leaves the
\* triples that were there together with one triple per snippet of the call.
C11_IndexUpserts ==
    [][(/\ Len(calls') = Len(calls) + 1
        /\ calls'[Len(calls')].op = "index"
        /\ calls'[Len(calls')].snippet_length >= 1)
       => LET c == calls'[Len(calls')]
              index == CHOOSE x \in db'.indexes : x.name = c.index_name
          IN /\ ~c.raised
             /\ Triples(db'.snippets) =
                    Triples(db.snippets)
                    \cup {<<index.id, d.id, t>> :
                            <<d, t>> \in {<<d, t>> \in db.documents \X
                                              UNION {ChunksOf(x, c.snippet_length)
                                                       : x \in db.documents} :
                                            d.id \in c.docs
                                            /\ t \in ChunksOf(d, c.snippet_length)}}]_vars

\* C12: with the wikipedia source, the simple snipper of length k, the dummy
\* embedder, an index name and no other key, a run whose identifiers are all
\* fetchable and persistable returns with no failure, the index exists with
\* 768 dimensions, and every document has one indexed-snippet row per k-word
\* chunk of its content, each with an embedding of 768 zeros.
C12_DefaultConfigRun ==
    (/\ pc \in {"done", "raised"}
     /\ raisedAt \notin ConfigCauses \cup {"generate_urls"}
     /\ config.document_data_model = NULL
     /\ DiscoveredSet # {}
     /\ Unresolvable = {}
     /\ Invoked("write_documents_to_database", FALSE) = {})
    => /\ pc = "done"
       /\ url_failures = <<>> /\ db_failures = <<>> /\ index_failures = <<>>
       /\ \E x \in db.indexes :
              /\ x.name = config.index_name
              /\ x.dimensions = 768
              /\ \A u \in DiscoveredSet :
                     \E d \in db.documents :
                         /\ d.url = u
                         /\ \A t \in ChunksOf(d, config.snippet_length) :
                                \E r \in db.snippets, e \in db.embeddings :
                                    /\ r.index = x.id /\ r.document = d.id
                                    /\ r.snippet = t /\ r.embedding = e.id
                                    /\ e.embedding = ZeroVector
                                    /\ e.dimensions = 768

RECURSIVE Concat(_)
\* the members of a list of lists, one after the other
Concat(seqs) == IF seqs = <<>> THEN <<>> ELSE Head(seqs) \o Concat(Tail(seqs))

\* C13: SimpleSnipper with snippet_length k >= 1 on a content of n words
\* yields ceil(n / k) snippets, none empty, each of at most k words, whose
\* words one after the other are the words of the content.
C13_SimpleSnipperPartition ==
    (snipper.type = "simple" /\ snipper.snippet_length >= 1 /\ gpc # "start")
    => LET k == snipper.snippet_length
           words == split(content)
           n == Len(words)
       IN /\ gpc # "raised"
          /\ Len(yielded) = (n + k - 1) \div k
          /\ \A i \in 1..Len(yielded) :
                 yielded[i] # <<>> /\ Len(split(yielded[i])) \in 1..k
          /\ Concat([i \in 1..Len(yielded) |-> split(yielded[i])]) = words

\* three words were cut with k = 2 into a full snippet and a shorter one
C13_Witness ==
    /\ snipper = SimpleSnipper(2)
    /\ gpc = "done"
    /\ Len(split(content)) = 3
    /\ Len(yielded) = 2
    /\ Len(split(yielded[2])) = 1

\* C14: every iteration of the loop of the paragraph snipper moves the
\* cursor forward, so that the generator ends on every content.
C14_CursorAdvances ==
    [][iterations' = iterations + 1 => current_pos' > current_pos]_vars

\* C15: for a content shorter than max_tokens the paragraph snipper yields
\* one snippet when the trimmed content has at least min_tokens words, none
\* otherwise, and never two.
C15_ShortContentOneSnippet ==
    (snipper.type = "paragraph" /\ Len(content) < snipper.max_tokens)
    => /\ Len(yielded) <= 1
       /\ gpc = "done"
          => Len(yielded) =
                 (IF strip(content) # <<>>
                     /\ Len(split(strip(content))) >= snipper.min_tokens
                  THEN 1 ELSE 0)

\* C16: what the paragraph snipper yields in an iteration is the trimmed
\* text between the old and the new cursor, not empty and of at least
\* min_tokens words; anything else is dropped and the text that was yielded
\* before stays as it was.  min_tokens is max_tokens // 2 when not given.
C16_YieldedMeetMinimum ==
    [][snipper.type = "paragraph"
       => /\ \A m \in {snipper.max_tokens} :
                 snipper = BasicParagraphSnipper(m, <<>>)
                 => snipper.min_tokens = m \div 2
          /\ LET window == strip(Slice(content, current_pos, current_pos'))
             IN \/ yielded' = yielded
                \/ /\ yielded' = Append(yielded, window)
                   /\ window # <<>>
                   /\ Len(split(window)) >= snipper.min_tokens]_vars

\* a snipper with min_tokens >= 1 has dropped a candidate and yielded another
C16_Witness ==
    /\ snipper.type = "paragraph"
    /\ snipper.min_tokens >= 1
    /\ gpc = "done"
    /\ Len(yielded) >= 1
    /\ iterations > Len(yielded)

\* C17: embed returns one vector for each text it is given, in the order of
\* the texts (a str is one text, an empty list gives an empty list); every
\* vector of the dummy embedder is 768 zeros.
C17_OneVectorPerText ==
    (gpc = "embedded" /\ ~embedding.raised)
    => LET texts == IF embedding.arg.isstr THEN <<embedding.arg.value>>
                    ELSE embedding.arg.value
       IN /\ Len(embedding.vectors) = Len(texts)
          /\ \A i \in 1..Len(texts) :
                 embedding.vectors[i] =
                     (IF embedding.embedder = "dummy"
                      THEN [width |-> 768, fill |-> 0]
                      ELSE ollama_embedding(texts[i]))

\* the dummy embedder was given a list of two snippets
C17_Witness ==
    /\ gpc = "embedded"
    /\ embedding.embedder = "dummy"
    /\ ~embedding.arg.isstr
    /\ Len(embedding.arg.value) = 2
    /\ Len(embedding.vectors) = 2

\* every page of the configured categories, persisted or not
Candidates(categories) ==
    UNION {get_categorymembers(categories[i], 0, 1, {}, corpus)
             : i \in 1..Len(categories)}

\* C18: with use_all = TRUE generate_urls returns every candidate identifier
\* of the configured categories, also one whose persisted content is the
\* content of the corpus.
C18_UseAllReturnsAll ==
    (use_all /\ pc \in {"loop", "done"})
    => DiscoveredSet = Candidates(config.categories)

\* C19: with use_all = FALSE generate_urls leaves out the identifier of a
\* persisted document while the corpus content is the persisted content,
\* and returns it when the corpus content differs from the persisted
\* content (and when nothing is persisted for it).
C19_IncrementalDiscovery ==
    (~use_all /\ pc \in {"loop", "done"})
    => \A u \in Candidates(config.categories) :
           u \in DiscoveredSet
           <=> ~ \E d \in startDb.documents :
                     d.url = u /\ d.content = corpus[u]

\* page u1 is persisted; a run left it out while the corpus had the
\* persisted content, the page was edited, and the next run returns it
C19_Witness ==
    /\ ~use_all
    /\ pc = "loop"
    /\ runner = "beam"
    /\ \E d \in startDb.documents : d.url = "u1" /\ d.content # corpus["u1"]
    /\ "u1" \in DiscoveredSet
    /\ outcomes["direct"].present
    /\ ~outcomes["direct"].use_all
    /\ outcomes["direct"].start = startDb
    /\ outcomes["direct"].status = "done"
    /\ "u1" \notin outcomes["direct"].discovered
    /\ "u2" \in outcomes["direct"].discovered

\* the failure list of a stage
StageFailures(step) ==
    IF step = "url_to_documents" THEN url_failures
    ELSE IF step = "write_documents" THEN db_failures
    ELSE index_failures

\* C20: when every item of a run is processed, the failure callback has
\* been called once for each stage that has a failure, with the name of the
\* stage, the first error and all the failed identifiers of the stage, and
\* not for a stage without failures; it is not called while items remain.
C20_ReportOncePerStage ==
    /\ pc = "loop" => reports = <<>>
    /\ (/\ pc \in {"done", "raised"}
        /\ raisedAt \notin ConfigCauses \cup {"generate_urls",
                                              "get_documents_to_index"})
       => \A step \in {"url_to_documents", "write_documents", "indexing"} :
              LET f == StageFailures(step)
                  rs == {i \in 1..Len(reports) : reports[i].step = step}
              IN IF f = <<>> THEN rs = {}
                 ELSE /\ Cardinality(rs) = 1
                      /\ \A i \in rs :
                             /\ reports[i].failed_urls =
                                    [j \in 1..Len(f) |-> f[j][1]]
                             /\ reports[i].error = f[1][2]

\* the entries of the log for an operation with a result, in order
LogOf(op, ok) ==
    SelectSeq(log, LAMBDA c : c.op = op /\ c.ok = ok)

\* the urls of a list of (url, error) pairs, in order
UrlsOf(failures) == [i \in 1..Len(failures) |-> failures[i][1]]

\* C21: when a parallel run has taken every element through, each failure
\* of a stage is in the failure list of the stage exactly once, whatever
\* the order in which the elements were taken, and each non-empty list has
\* been handed to the failure callback under the name of its stage.
C21_ParallelFailuresCollected ==
    (/\ runner = "beam"
     /\ pc \in {"done", "raised"}
     /\ raisedAt \notin ConfigCauses \cup {"generate_urls",
                                           "get_documents_to_index"})
    => /\ \A u \in URLS :
              /\ Cardinality({i \in 1..Len(url_failures) : url_failures[i][1] = u})
                 = Len(SelectSeq(LogOf("urls_to_text_documents", FALSE),
                                 LAMBDA c : c.url = u))
              /\ Cardinality({i \in 1..Len(db_failures) : db_failures[i][1] = u})
                 = Len(SelectSeq(LogOf("write_documents_to_database", FALSE),
                                 LAMBDA c : c.url = u))
       /\ \A step \in {"url_to_documents", "write_documents", "indexing"} :
              StageFailures(step) # <<>>
              => \E i \in 1..Len(reports) :
                     /\ reports[i].step = step
                     /\ reports[i].failed_urls = UrlsOf(StageFailures(step))

\* the number of fetches among the first i entries of the log
FetchesUpTo(i) ==
    Cardinality({j \in 1..i : log[j].op = "urls_to_text_documents"})

\* C22: the sequential runner takes the urls in the order generate_urls
\* returned them, one at a time: the k-th fetch is for the k-th url, every
\* operation logged after it and before the next fetch is for that url, and
\* a failed fetch is recorded before the next url is taken.
C22_SequentialOrder ==
    runner = "direct"
    => /\ FetchesUpTo(Len(log)) = Len(discovered) - Len(urls)
       /\ \A i \in 1..Len(log) :
              log[i].op # "generate_urls"
              => /\ FetchesUpTo(i) \in 1..Len(discovered)
                 /\ log[i].url = discovered[FetchesUpTo(i)]
       /\ UrlsOf(url_failures)
          = [i \in 1..Len(LogOf("urls_to_text_documents", FALSE)) |->
                 LogOf("urls_to_text_documents", FALSE)[i].url]

\* a sequential run took two different urls, the first of the list first
C22_Witness ==
    /\ runner = "direct"
    /\ pc = "done"
    /\ Len(discovered) = 2
    /\ discovered[1] # discovered[2]
    /\ FetchesUpTo(Len(log)) = 2
    /\ UrlsOf(url_failures) = discovered

\* C24: a TextDocument can be put in a set, so urls_to_text_documents
\* returns for every url that has its entry in the page cache: no fetch of
\* a cached url fails.
C24_TextDocumentInSet ==
    \A i \in 1..Len(log) :
        (log[i].op = "urls_to_text_documents"
         /\ page_url_to_content[log[i].url].present)
        => log[i].ok

\* C28: generate_urls returns no identifier twice, and a sequential run
\* fetches no url twice.
C28_NoDuplicateUrls ==
    /\ \A i, j \in 1..Len(discovered) :
           discovered[i] = discovered[j] => i = j
    /\ runner = "direct"
       => \A i, j \in 1..Len(log) :
              (log[i].op = "urls_to_text_documents" /\ log[i] = log[j])
              => i = j

\* where C23 has the cut for a window without paragraph break: after the
\* last sentence ending that starts in the window, else after the last
\* white space of the window, else max_tokens characters after the cursor
ExpectedCut(text, pos, max_tokens) ==
    LET window == pos..(Min2(pos + max_tokens, Len(text)) - 1)
        endings == {i \in window : Slice(text, i, i + 2) \in SentenceEndings}
        blanks == {i \in window : text[i + 1] \in Whitespace}
    IN IF endings # {} THEN Max(endings) + 2
       ELSE IF blanks # {} THEN Max(blanks) + 1
       ELSE pos + max_tokens

\* C23: in an iteration of the paragraph snipper whose window has no
\* paragraph break, the cursor moves behind the last sentence ending of the
\* window; without a sentence ending, behind the last white space of the
\* window; with neither, max_tokens characters on.
C23_CutAtNearestBoundary ==
    [][(/\ iterations' = iterations + 1
        /\ find(content, <<"\n", "\n">>, current_pos,
                current_pos + snipper.max_tokens) = -1)
       => current_pos' = ExpectedCut(content, current_pos,
                                     snipper.max_tokens)]_vars

\* C25: every Embedding row has the length of its vector as dimensions and
\* is referred to by exactly one indexed-snippet row, after calls of
\* index_documents that returned and calls that raised.
C25_EmbeddingOwnedByOneSnippet ==
    \A e \in db.embeddings :
        /\ e.dimensions = VectorLen(e.embedding)
        /\ Cardinality({r \in db.snippets : r.embedding = e.id}) = 1

\* an index call that raised on its second snippet came after one that
\* returned; the rows of the first are there, each with its embedding
C25_Witness ==
    /\ Len(calls) >= 2
    /\ calls[Len(calls)].op = "index"
    /\ calls[Len(calls)].raised
    /\ calls[Len(calls)].snippet_length = 1
    /\ \E i \in 1..(Len(calls) - 1) :
           /\ calls[i].op = "index" /\ ~calls[i].raised
           /\ calls[i].index_name # calls[Len(calls)].index_name
    /\ Cardinality(db.embeddings) >= 2
    /\ Cardinality(db.embeddings) = Cardinality(db.snippets)

\* C26: an index has the 768 dimensions it was created with, and every
\* embedding stored for a snippet of the index has that width, whatever
\* embedder index_documents was given.
C26_EmbeddingWidthIsIndexDimensions ==
    \A x \in db.indexes :
        /\ x.dimensions = 768
        /\ \A r \in db.snippets, e \in db.embeddings :
               (r.index = x.id /\ r.embedding = e.id)
               => /\ e.dimensions = x.dimensions
                  /\ VectorLen(e.embedding) = x.dimensions

\* the urls the generate_urls calls among the first n calls returned
ReturnedBy(n) ==
    UNION {{calls[i].urls[j] : j \in 1..Len(calls[i].urls)}
             : i \in {k \in 1..n : calls[k].op = "generate_urls"}}

\* C27: every url a generate_urls call returned has its title and content
\* in page_url_to_content; urls_to_text_documents raises when it is given a
\* url no earlier generate_urls call returned (KeyError when that is the
\* only url), and the loop body of either runner records such a url under
\* "url_to_documents".
C27_FetchReadsCacheOnly ==
    /\ \A u \in ReturnedBy(Len(calls)) :
           page_url_to_content[u] =
               [present |-> TRUE, title |-> Title(u), content |-> corpus[u]]
    /\ \A i \in 1..Len(calls) :
           (/\ calls[i].op = "urls_to_text_documents"
            /\ \E j \in 1..Len(calls[i].urls) :
                   calls[i].urls[j] \notin ReturnedBy(i - 1))
           => /\ calls[i].raised
              /\ Len(calls[i].urls) = 1 => calls[i].error = "KeyError"
    /\ \A u \in URLS \ ReturnedBy(Len(calls)) :
           /\ DirectProcessUrl(RunState, u, config, page_url_to_content,
                               FALSE).url_failures = <<<<u, "KeyError">>>>
           /\ BeamProcessElement(RunState, u, page_url_to_content,
                                 FALSE).url_failures = <<<<u, "KeyError">>>>

\* generate_urls returned u2 and not u1, and the fetch of u1 raised KeyError
C27_Witness ==
    /\ Len(calls) = 2
    /\ calls[1].op = "generate_urls"
    /\ ReturnedBy(1) = {"u2"}
    /\ calls[2] = [op |-> "urls_to_text_documents", use_all |-> FALSE,
                   urls |-> <<"u1">>, raised |-> TRUE, error |-> "KeyError"]
    /\ page_url_to_content["u2"].present
    /\ ~page_url_to_content["u1"].present

====
